---- MODULE Spec2Model ----
(***************************************************************************)
(* A model of Build.py, the rule-set build script.                         *)
(*                                                                         *)
(* Text is modelled as a sequence of tokens.  A token stands for a run of  *)
(* characters that holds no comma, no white space, no line break and no    *)
(* leading '#', except for the five tokens that stand for exactly those    *)
(* characters.  str.splitlines, str.strip, str.split and str.startswith    *)
(* are modelled on token sequences by what they do on characters.          *)
(*                                                                         *)
(* A path is a sequence of components relative to the working directory;   *)
(* a component is the pair <<stem, suffix>> that pathlib computes for the  *)
(* name (PurePath.stem, PurePath.suffix).                                  *)
(***************************************************************************)
EXTENDS Integers, Sequences, FiniteSets, TLC

VARIABLES
    fs,               \* regular files: path -> content (token sequence)
    dirs,             \* directories: set of paths
    fs0,              \* the files when the program was started
    pc,               \* position of the running program
    platform,         \* args.platform
    path_given,       \* args.file_path is not None
    file_path,        \* args.file_path (meaningful when path_given)
    file_to_process,  \* main: the files still to be processed, in order
    pending,          \* process_source: the entries rglob has yet to yield
    console,          \* messages written so far to stdout and stderr
    exit_status,      \* -1 while running, then the exit status
    calls,            \* the calls of convert_function made so far
    rule_data,        \* the last value returned by content_read
    output,           \* the last value handed to content_write as rule_data
    history           \* content of the converted file after each conversion

vars == <<fs, dirs, fs0, pc, platform, path_given, file_path, file_to_process,
          pending, console, exit_status, calls, rule_data, output, history>>

-----------------------------------------------------------------------------
(* Characters and strings *)

SP == " "
NL == "\n"
COMMA == ","
HASH == "#"
QUOTE == "\""
BACKSLASH == "\\"
\* a byte sequence that is not valid UTF-8
BadByte == "\\xff"

\* s[from..] in Python slice terms (1-based here)
Drop(s, n) == SubSeq(s, n + 1, Len(s))

Take(s, n) == SubSeq(s, 1, n)

\* str.startswith
StartsWith(s, prefix) ==
    /\ Len(s) >= Len(prefix)
    /\ Take(s, Len(prefix)) = prefix

\* str.lstrip(): from the first character that is not white space
LStrip(s) ==
    LET keep == {i \in 1..Len(s) : s[i] # SP} IN
    IF keep = {} THEN <<>>
    ELSE SubSeq(s, CHOOSE i \in keep : \A j \in keep : i <= j, Len(s))

\* str.rstrip(): up to the last character that is not white space
RStrip(s) ==
    LET keep == {i \in 1..Len(s) : s[i] # SP} IN
    IF keep = {} THEN <<>>
    ELSE SubSeq(s, 1, CHOOSE i \in keep : \A j \in keep : j <= i)

\* str.strip()
Strip(s) == RStrip(LStrip(s))

\* index of the first occurrence of c in s, 0 when there is none (str.find + 1)
Find(s, c) ==
    LET hits == {i \in 1..Len(s) : s[i] = c} IN
    IF hits = {} THEN 0 ELSE CHOOSE i \in hits : \A j \in hits : i <= j

\* str.split(sep, maxsplit): at most maxsplit cuts, the rest is kept whole
RECURSIVE Split(_, _, _)
Split(s, sep, maxsplit) ==
    LET i == Find(s, sep) IN
    IF maxsplit = 0 \/ i = 0 THEN <<s>>
    ELSE <<Take(s, i - 1)>> \o Split(Drop(s, i), sep, maxsplit - 1)

\* str.splitlines(): a line break ends a line; no empty last line.
\* ends: the position after the last character of each line
SplitLines(s) ==
    LET ends == {i \in 1..Len(s) : s[i] = NL}
                \cup (IF s # <<>> /\ s[Len(s)] # NL THEN {Len(s) + 1} ELSE {})
        EndOf(k) == CHOOSE e \in ends : Cardinality({x \in ends : x <= e}) = k
        StartOf(k) == IF k = 1 THEN 1 ELSE EndOf(k - 1) + 1
    IN  [k \in 1..Cardinality(ends) |-> SubSeq(s, StartOf(k), EndOf(k) - 1)]

\* the concatenation of a sequence of strings
RECURSIVE Concat(_)
Concat(ss) ==
    IF ss = <<>> THEN <<>>
    ELSE IF Len(ss) = 1 THEN ss[1]
    ELSE LET half == Len(ss) \div 2 IN
         Concat(Take(ss, half)) \o Concat(Drop(ss, half))

\* [f(x) for x in s] for a sequence s
MapSeq(s, F(_)) == [i \in 1..Len(s) |-> F(s[i])]

\* bytes.decode("utf-8") succeeds
Decodable(s) == \A i \in 1..Len(s) : s[i] # BadByte

-----------------------------------------------------------------------------
(* content_read *)

\* the while loop of lines 50-51
RECURSIVE Pad(_)
Pad(rule) == IF Len(rule) < 3 THEN Pad(Append(rule, <<>>)) ELSE rule

\* ParseRule with every comma cut: the remainder after the second comma is
\* cut too and its tail dropped
ParseRule_SplitAll(raw_line) == Take(Pad(Split(raw_line, COMMA, 3)), 3)

\* lines 49-52: one qualifying line to a tuple of three fields
ParseRule(raw_line) == Take(Pad(Split(raw_line, COMMA, 2)), 3)

\* line 47: the line is skipped
Skipped(raw_line) == raw_line = <<>> \/ Head(raw_line) = HASH

Kept(raw_line) == ~Skipped(raw_line)

\* content_read applied to the text of the file: lines 45-53
content_read(text) ==
    MapSeq(SelectSeq(MapSeq(SplitLines(text), Strip), Kept), ParseRule)

-----------------------------------------------------------------------------
(* Paths (pathlib) *)

\* the path "."
Dot == <<>>

\* a component whose name has no suffix
Dir(name) == <<name, "">>

\* PurePath.parent
Parent(p) == Take(p, Len(p) - 1)

\* PurePath.stem
Stem(p) == p[Len(p)][1]

\* PurePath.with_suffix
with_suffix(p, suffix) == [p EXCEPT ![Len(p)] = <<@[1], suffix>>]

\* q is p or lies below p
Under(p, q) == Len(q) >= Len(p) /\ Take(q, Len(p)) = p

\* the characters of a component's name
NameTokens(c) == IF c[2] = "" THEN <<c[1]>> ELSE <<c[1], c[2]>>

\* PurePath.as_posix
RECURSIVE as_posix(_)
as_posix(p) ==
    IF p = <<>> THEN <<".">>
    ELSE IF Len(p) = 1 THEN NameTokens(p[1])
    ELSE NameTokens(Head(p)) \o <<"/">> \o as_posix(Tail(p))

\* next(p for p in file_path.parents if p.name == name): the length of the
\* nearest proper ancestor of that name, 0 when the generator is exhausted
PlatformRoot(p, name) ==
    LET hits == {i \in 1..(Len(p) - 1) : p[i] = Dir(name)} IN
    IF hits = {} THEN 0 ELSE CHOOSE i \in hits : \A j \in hits : j <= i

\* file_path.relative_to(platform_root.parent), root being the ancestor of
\* length `root`
relative_to_parent(p, root) == Drop(p, root - 1)

-----------------------------------------------------------------------------
(* The rule maps *)

EGERN_RULE_MAP ==
    (<<"DOMAIN">> :> "domain_set") @@
    (<<"DOMAIN-SUFFIX">> :> "domain_suffix_set") @@
    (<<"DOMAIN-KEYWORD">> :> "domain_keyword_set") @@
    (<<"DOMAIN-WILDCARD">> :> "domain_wildcard_set") @@
    (<<"IP-CIDR">> :> "ip_cidr_set") @@
    (<<"IP-CIDR6">> :> "ip_cidr6_set")

EGERN_RULE_QUOTE == {"domain_wildcard_set"}

SINGBOX_RULE_MAP ==
    (<<"DOMAIN">> :> "domain") @@
    (<<"DOMAIN-SUFFIX">> :> "domain_suffix") @@
    (<<"DOMAIN-KEYWORD">> :> "domain_keyword") @@
    (<<"IP-CIDR">> :> "ip_cidr") @@
    (<<"IP-CIDR6">> :> "ip_cidr")

NO_RESOLVE == <<"no-resolve">>

\* defaultdict(list): an insertion-ordered sequence of <<key, list>>
KeyIndex(rule_dict, key) ==
    LET hits == {i \in 1..Len(rule_dict) : rule_dict[i][1] = key} IN
    IF hits = {} THEN 0 ELSE CHOOSE i \in hits : TRUE

\* DictAppend that never finds the key: every value opens a group
DictAppend_NoMerge(rule_dict, key, value) == Append(rule_dict, <<key, <<value>>>>)

\* rule_dict[key].append(value)
DictAppend(rule_dict, key, value) ==
    LET i == KeyIndex(rule_dict, key) IN
    IF i = 0 THEN Append(rule_dict, <<key, <<value>>>>)
    ELSE [rule_dict EXCEPT ![i] = <<key, Append(@[2], value)>>]

-----------------------------------------------------------------------------
(* content_write *)

\* stand-ins for the two labels of the header and for the emoji of the title,
\* which are not ASCII in the source
RULE_NAME_LABEL == "rule-name:"
RULE_COUNT_LABEL == "rule-count:"
TEDDY == "(teddy)"

\* "\n".join(lines)
JoinLine(line) == <<NL>> \o line

JoinLines(lines) ==
    IF lines = <<>> THEN <<>>
    ELSE Head(lines) \o Concat(MapSeq(Tail(lines), JoinLine))

Indent(n) == [i \in 1..n |-> SP]

\* json's escaping of one character of a string
JsonEscape(c) ==
    IF c = QUOTE THEN <<BACKSLASH, QUOTE>>
    ELSE IF c = BACKSLASH THEN <<BACKSLASH, BACKSLASH>>
    ELSE <<c>>

\* json.dumps of a string, ensure_ascii=False
JsonString(s) == <<QUOTE>> \o Concat(MapSeq(s, JsonEscape)) \o <<QUOTE>>

\* json.dumps, indent=2, of one {rule_type: [values]} of the rules array
JsonRule(rule, last) ==
    << Indent(4) \o <<"{">>,
       Indent(6) \o JsonString(<<rule[1]>>) \o <<":", SP, "[">> >>
    \o [i \in 1..Len(rule[2]) |->
          Indent(8) \o JsonString(rule[2][i])
          \o (IF i < Len(rule[2]) THEN <<COMMA>> ELSE <<>>)]
    \o << Indent(6) \o <<"]">>,
          Indent(4) \o <<"}">> \o (IF last THEN <<>> ELSE <<COMMA>>) >>

RECURSIVE JsonRules(_)
JsonRules(rules) ==
    IF rules = <<>> THEN <<>>
    ELSE JsonRule(Head(rules), Len(rules) = 1) \o JsonRules(Tail(rules))

\* json.dumps(rule_data, indent=2, ensure_ascii=False) of
\* {"version": n, "rules": [...]}
json_dumps(obj) ==
    JoinLines(
      << <<"{">>,
         Indent(2) \o JsonString(<<"version">>)
                   \o <<":", SP, ToString(obj.version), COMMA>> >>
      \o (IF obj.rules = <<>>
            THEN << Indent(2) \o JsonString(<<"rules">>) \o <<":", SP, "[]">> >>
            ELSE << Indent(2) \o JsonString(<<"rules">>) \o <<":", SP, "[">> >>
                 \o JsonRules(obj.rules)
                 \o << Indent(2) \o <<"]">> >>)
      \o << <<"}">> >>)

\* what content_write writes for platform == "Singbox" (line 58)
SingboxText(rule_data_arg) == json_dumps(rule_data_arg) \o <<NL>>

LineNL(line) == line \o <<NL>>

\* what content_write writes otherwise (lines 60-62)
EgernText(rule_name, rule_count, lines) ==
    <<HASH, SP, RULE_NAME_LABEL, SP, rule_name, NL>>
    \o <<HASH, SP, RULE_COUNT_LABEL, SP, ToString(rule_count), NL, NL>>
    \o Concat(MapSeq(lines, LineNL))

\* a message: the stream, which print or exit wrote it, the path and the
\* other text it holds
Message(stream, kind, p, detail) ==
    [stream |-> stream, kind |-> kind, file |-> p, detail |-> detail]

\* the message of line 64
Processed(plat, p) == Message("stdout", "Processed", p, plat)

-----------------------------------------------------------------------------
(* convert_egern and convert_singbox *)

URL_BASE == "https://raw.githubusercontent.com/Centralmatrix3/Ruleset/master/"

ITEM_PREFIX == <<SP, SP, "-", SP>>

\* what a conversion hands back to its caller.  raised: an exception left
\* the function; error: str(e); files: the files as the call left them
Returned(files, printed, rd, out) ==
    [raised |-> FALSE, error |-> "", files |-> files, printed |-> printed,
     rule_data |-> rd, output |-> out]

Raised(files, error, printed, rd, out) ==
    [raised |-> TRUE, error |-> error, files |-> files, printed |-> printed,
     rule_data |-> rd, output |-> out]

\* str(e) of the exceptions the conversions raise
UnicodeDecodeErrorMsg == "'utf-8' codec can't decode byte 0xff"
StopIterationMsg == ""
IsADirectoryErrorMsg == "[Errno 21] Is a directory"

\* file.open("w") ... f.write(text)
WriteFile(files, p, text) == (p :> text) @@ files

\* ReadmeFile at the top of the tree instead of beside the file
ReadmeFile_AtTop(p) == <<p[1], <<"readme", ".md">>>>

\* lines 84 and 102: file_path.parent / "readme.md"
ReadmeFile(p) == Append(Parent(p), <<"readme", ".md">>)

\* lines 69-71: the no_resolve flag after the loop
EgernNoResolve(rd) == \E i \in 1..Len(rd) : rd[i][3] = NO_RESOLVE

\* lines 70-75: rule_dict after the loop
RECURSIVE EgernDict(_, _)
EgernDict(rd, rule_dict) ==
    IF rd = <<>> THEN rule_dict
    ELSE LET style == Head(rd)[1]
             value == Head(rd)[2]
         IN  IF style \in DOMAIN EGERN_RULE_MAP
             THEN LET rule_type == EGERN_RULE_MAP[style]
                      rule_value == IF rule_type \in EGERN_RULE_QUOTE
                                    THEN <<QUOTE>> \o value \o <<QUOTE>>
                                    ELSE value
                  IN  EgernDict(Tail(rd), DictAppend(rule_dict, rule_type, rule_value))
             ELSE EgernDict(Tail(rd), rule_dict)

ItemLine(value) == ITEM_PREFIX \o value

\* lines 78-79 for one group
EgernGroup(group) == << <<group[1], ":">> >> \o MapSeq(group[2], ItemLine)

\* lines 76-79: the list `output`
EgernOutput(rd) ==
    (IF EgernNoResolve(rd) THEN << <<"no_resolve:", SP, "true">> >> ELSE <<>>)
    \o Concat(MapSeq(EgernDict(rd, <<>>), EgernGroup))

\* EgernRuleCount that counts every line of the body
EgernRuleCount_AllLines(out) == Len(out)

\* line 80
EgernRuleCount(out) ==
    Cardinality({i \in 1..Len(out) : StartsWith(out[i], ITEM_PREFIX)})

\* lines 86-87
EgernReadme(rule_name, relative_yaml) ==
    <<HASH, SP, TEDDY, SP, rule_name, NL, NL, URL_BASE>> \o as_posix(relative_yaml)

convert_egern(files, directories, p) ==
    IF ~Decodable(files[p])
    THEN Raised(files, UnicodeDecodeErrorMsg, <<>>, <<>>, <<>>)
    ELSE
    LET rule_name == Stem(p)
        rd == content_read(files[p])
        out == EgernOutput(rd)
        rule_count == EgernRuleCount(out)
        written == WriteFile(files, p, EgernText(rule_name, rule_count, out))
        printed == <<Processed("Egern", p)>>
        root == PlatformRoot(p, "Egern")
        readme_file == ReadmeFile(p)
    IN  IF root = 0 THEN Raised(written, StopIterationMsg, printed, rd, out)
        ELSE IF readme_file \in directories
        THEN Raised(written, IsADirectoryErrorMsg, printed, rd, out)
        ELSE Returned(
               WriteFile(written, readme_file,
                         EgernReadme(rule_name, relative_to_parent(p, root))),
               printed, rd, out)

\* lines 92-95: rule_dict after the loop
RECURSIVE SingboxDict(_, _)
SingboxDict(rd, rule_dict) ==
    IF rd = <<>> THEN rule_dict
    ELSE LET style == Head(rd)[1]
             value == Head(rd)[2]
         IN  IF style \in DOMAIN SINGBOX_RULE_MAP
             THEN SingboxDict(Tail(rd),
                              DictAppend(rule_dict, SINGBOX_RULE_MAP[style], value))
             ELSE SingboxDict(Tail(rd), rule_dict)

SINGBOX_VERSION == 3

\* lines 96-97: the list of {rule_type: value} is the sequence of pairs
SingboxOutput(rd) == [version |-> SINGBOX_VERSION, rules |-> SingboxDict(rd, <<>>)]

\* lines 104-106
SingboxReadme(rule_name, relative_json, relative_srs) ==
    <<HASH, SP, TEDDY, SP, rule_name, NL, NL, URL_BASE>> \o as_posix(relative_json)
    \o <<NL, NL, URL_BASE>> \o as_posix(relative_srs)

convert_singbox(files, directories, p) ==
    IF ~Decodable(files[p])
    THEN Raised(files, UnicodeDecodeErrorMsg, <<>>, <<>>, <<>>)
    ELSE
    LET rule_name == Stem(p)
        rd == content_read(files[p])
        out == SingboxOutput(rd)
        written == WriteFile(files, p, SingboxText(out))
        printed == <<Processed("Singbox", p)>>
        root == PlatformRoot(p, "Singbox")
        readme_file == ReadmeFile(p)
    IN  IF root = 0 THEN Raised(written, StopIterationMsg, printed, rd, out)
        ELSE IF readme_file \in directories
        THEN Raised(written, IsADirectoryErrorMsg, printed, rd, out)
        ELSE Returned(
               WriteFile(written, readme_file,
                         SingboxReadme(rule_name,
                                       relative_to_parent(p, root),
                                       relative_to_parent(with_suffix(p, ".srs"), root))),
               printed, rd, out)

\* lines 113-116: the function main selects for a dialect mode
convert_function(plat, files, directories, p) ==
    IF plat = "Egern" THEN convert_egern(files, directories, p)
    ELSE convert_singbox(files, directories, p)

-----------------------------------------------------------------------------
(* SpecConvert: one rule file, converted in place, again and again *)

\* most rows of an input file
MaxRows == 3
\* most conversions of the same file
MaxRuns == 2

\* styles of the input rows: recognized by both maps, by the dialect-A map
\* alone, the two that dialect B merges, and one that no map holds
ConvStyles == {"DOMAIN", "DOMAIN-WILDCARD", "IP-CIDR", "IP-CIDR6", "USER-AGENT"}

ConvOptions == {<<>>, NO_RESOLVE}

\* the value of row i: every row has a value of its own
RowValue(i) == <<"v", ToString(i)>>

\* the line "style,value" or "style,value,option"
RowLine(style, i, option) ==
    <<style, COMMA>> \o RowValue(i)
    \o (IF option = <<>> THEN <<>> ELSE <<COMMA>> \o option) \o <<NL>>

RowsText(rows) == Concat([i \in 1..Len(rows) |-> RowLine(rows[i][1], i, rows[i][2])])

ConvInputs ==
    UNION {{RowsText(rows) : rows \in [1..n -> ConvStyles \X ConvOptions]} : n \in 0..MaxRows}

\* the file converted: Egern/A.yaml or Singbox/A.json
ConvFile(plat) == <<Dir(plat), <<"A", IF plat = "Egern" THEN ".yaml" ELSE ".json">>>>

InitConvert ==
    /\ platform \in {"Egern", "Singbox"}
    /\ \E text \in ConvInputs : fs = (ConvFile(platform) :> text)
    /\ dirs = {Dot, <<Dir(platform)>>}
    /\ fs0 = fs
    /\ pc = "convert"
    /\ path_given = TRUE
    /\ file_path = ConvFile(platform)
    /\ file_to_process = <<>>
    /\ pending = {}
    /\ console = <<>>
    /\ exit_status = -1
    /\ calls = <<>>
    /\ rule_data = <<>>
    /\ output = <<>>
    /\ history = <<>>

\* the effect on the state of one call convert_function(p) that handed back
\* res, `reported` being what the caller prints about it
Called(p, res, reported) ==
    /\ fs' = res.files
    /\ console' = console \o res.printed \o reported
    /\ calls' = Append(calls, [file |-> p, raised |-> res.raised, error |-> res.error])
    /\ rule_data' = res.rule_data
    /\ output' = res.output

RunConvertEgern ==
    /\ pc = "convert"
    /\ platform = "Egern"
    /\ Len(history) < MaxRuns
    /\ LET res == convert_egern(fs, dirs, file_path) IN
         /\ Called(file_path, res, <<>>)
         /\ history' = Append(history, res.files[file_path])
    /\ UNCHANGED <<dirs, fs0, pc, platform, path_given, file_path,
                   file_to_process, pending, exit_status>>

RunConvertSingbox ==
    /\ pc = "convert"
    /\ platform = "Singbox"
    /\ Len(history) < MaxRuns
    /\ LET res == convert_singbox(fs, dirs, file_path) IN
         /\ Called(file_path, res, <<>>)
         /\ history' = Append(history, res.files[file_path])
    /\ UNCHANGED <<dirs, fs0, pc, platform, path_given, file_path,
                   file_to_process, pending, exit_status>>

NextConvert == RunConvertEgern \/ RunConvertSingbox

SpecConvert == InitConvert /\ [][NextConvert]_vars

-----------------------------------------------------------------------------
(* Properties of the conversions, checked under SpecConvert *)

\* the content a conversion leaves in file p when it finds `text` there
ConvertedText(plat, p, text) == convert_function(plat, (p :> text), {}, p).files[p]

RecognizedStyles(plat) ==
    IF plat = "Egern" THEN DOMAIN EGERN_RULE_MAP ELSE DOMAIN SINGBOX_RULE_MAP

\* s without its k-th element
RemoveAt(s, k) == Take(s, k - 1) \o Drop(s, k)

\* C1: converting the same path twice in succession leaves, after the second
\* run, the content the first run left.
C1_SecondRunSameContent ==
    Len(history) >= 2 => history[2] = history[1]

\* C2: a row whose style the formatter's map does not hold is as good as
\* deleted: the converted file is the one the input without that row gives,
\* whatever the row's option field.
C2_UnrecognizedRowAsDeleted ==
    Len(history) = 1 =>
      LET lines == SplitLines(fs0[file_path]) IN
      \A k \in 1..Len(lines) :
        ParseRule(Strip(lines[k]))[1] \notin RecognizedStyles(platform) =>
          history[1] = ConvertedText(platform, file_path,
                                     Concat(MapSeq(RemoveAt(lines, k), LineNL)))

\* the values of the records of rd that the dialect-B map sends to key, in
\* file order
RECURSIVE SingboxValuesFor(_, _)
SingboxValuesFor(rd, key) ==
    IF rd = <<>> THEN <<>>
    ELSE (IF /\ Head(rd)[1] \in DOMAIN SINGBOX_RULE_MAP
             /\ SINGBOX_RULE_MAP[Head(rd)[1]] = key
          THEN <<Head(rd)[2]>> ELSE <<>>)
         \o SingboxValuesFor(Tail(rd), key)

\* index in rd of the first record the dialect-B map sends to key
SingboxFirstSeen(rd, key) ==
    CHOOSE i \in 1..Len(rd) :
      /\ rd[i][1] \in DOMAIN SINGBOX_RULE_MAP
      /\ SINGBOX_RULE_MAP[rd[i][1]] = key
      /\ \A j \in 1..(i - 1) :
           ~(rd[j][1] \in DOMAIN SINGBOX_RULE_MAP /\ SINGBOX_RULE_MAP[rd[j][1]] = key)

\* C8: the dialect-B output is {version: 3, rules: [...]} and nothing else;
\* each output key occurs in at most one element of rules, every key that
\* some record maps to occurs, the elements are in the order in which their
\* keys are first seen in the input, and each list holds the raw values of
\* all records mapped to its key, in file order.
C8_SingboxOutputShape ==
    (platform = "Singbox" /\ Len(history) >= 1) =>
      LET rules == output.rules IN
      /\ DOMAIN output = {"version", "rules"}
      /\ output.version = 3
      /\ \A i, j \in 1..Len(rules) : rules[i][1] = rules[j][1] => i = j
      /\ \A i \in 1..Len(rules) :
           /\ Len(rules[i]) = 2
           /\ \E style \in DOMAIN SINGBOX_RULE_MAP : SINGBOX_RULE_MAP[style] = rules[i][1]
           /\ rules[i][2] # <<>>
           /\ rules[i][2] = SingboxValuesFor(rule_data, rules[i][1])
      /\ \A k \in 1..Len(rule_data) :
           rule_data[k][1] \in DOMAIN SINGBOX_RULE_MAP =>
             \E i \in 1..Len(rules) : rules[i][1] = SINGBOX_RULE_MAP[rule_data[k][1]]
      /\ \A i, j \in 1..Len(rules) :
           i < j => SingboxFirstSeen(rule_data, rules[i][1])
                      < SingboxFirstSeen(rule_data, rules[j][1])
      /\ history[Len(history)] = SingboxText(output)

\* C8's case: IP-CIDR6 before another key before IP-CIDR, merged in one list
C8_Witness ==
    /\ platform = "Singbox"
    /\ Len(history) = 1
    /\ Len(rule_data) = 3
    /\ rule_data[1][1] = <<"IP-CIDR6">>
    /\ rule_data[2][1] = <<"DOMAIN">>
    /\ rule_data[3][1] = <<"IP-CIDR">>
    /\ rule_data[3][3] = NO_RESOLVE
    /\ output.rules = << <<"ip_cidr", <<RowValue(1), RowValue(3)>>>>,
                         <<"domain", <<RowValue(2)>>>> >>

\* C9: in a dialect-A output file the count of the header is the number of
\* list-item lines of the body, and the number of input records whose style
\* the dialect-A map holds; the other body lines are the no-resolve marker
\* and the group headers.
C9_HeaderCountIsItemCount ==
    (platform = "Egern" /\ Len(history) >= 1) =>
      LET lines == SplitLines(history[Len(history)])
          items == {i \in 4..Len(lines) : StartsWith(lines[i], ITEM_PREFIX)}
          recognized == {k \in 1..Len(rule_data) : rule_data[k][1] \in DOMAIN EGERN_RULE_MAP}
      IN  /\ Len(lines) >= 3
          /\ lines[1] = <<HASH, SP, RULE_NAME_LABEL, SP, Stem(file_path)>>
          /\ lines[2] = <<HASH, SP, RULE_COUNT_LABEL, SP, ToString(Cardinality(items))>>
          /\ lines[3] = <<>>
          /\ Cardinality(items) = Cardinality(recognized)
          /\ \A i \in (4..Len(lines)) \ items :
               \/ lines[i] = <<"no_resolve:", SP, "true">>
               \/ \E style \in DOMAIN EGERN_RULE_MAP : lines[i] = <<EGERN_RULE_MAP[style], ":">>

\* C9's case: a marker line, two group headers and three items
C9_Witness ==
    /\ platform = "Egern"
    /\ Len(history) = 1
    /\ LET lines == SplitLines(history[1]) IN
         /\ Len(lines) = 9
         /\ lines[2] = <<HASH, SP, RULE_COUNT_LABEL, SP, "3">>
         /\ lines[4] = <<"no_resolve:", SP, "true">>

-----------------------------------------------------------------------------
(* SpecParse: content_read on every short text *)

\* most characters of the text read
MaxTextLen == 6

ParseAlphabet == {"a", COMMA, SP, HASH, NL}

ParseTexts == UNION {[1..n -> ParseAlphabet] : n \in 0..MaxTextLen}

ParseFile == <<Dir("Egern"), <<"A", ".yaml">>>>

InitParse ==
    /\ platform = "Egern"
    /\ \E text \in ParseTexts : fs = (ParseFile :> text)
    /\ dirs = {Dot, <<Dir("Egern")>>}
    /\ fs0 = fs
    /\ pc = "read"
    /\ path_given = TRUE
    /\ file_path = ParseFile
    /\ file_to_process = <<>>
    /\ pending = {}
    /\ console = <<>>
    /\ exit_status = -1
    /\ calls = <<>>
    /\ rule_data = <<>>
    /\ output = <<>>
    /\ history = <<>>

\* rule_data = content_read(file_path)
ContentRead ==
    /\ pc = "read"
    /\ rule_data' = content_read(fs[file_path])
    /\ pc' = "parsed"
    /\ UNCHANGED <<fs, dirs, fs0, platform, path_given, file_path, file_to_process,
                   pending, console, exit_status, calls, output, history>>

NextParse == ContentRead

SpecParse == InitParse /\ [][NextParse]_vars

\* the number of commas of a line
Commas(line) == Cardinality({i \in 1..Len(line) : line[i] = COMMA})

HasComma(field) == \E i \in 1..Len(field) : field[i] = COMMA

\* rule is what the claim says of a qualifying line: three fields, the first
\* two free of commas, and joined by commas they give the line back, an
\* absent field being empty
ThreeFieldsOf(rule, line) ==
    /\ Len(rule) = 3
    /\ ~HasComma(rule[1])
    /\ ~HasComma(rule[2])
    /\ CASE Commas(line) = 0 -> rule = <<line, <<>>, <<>>>>
         [] Commas(line) = 1 -> /\ rule[1] \o <<COMMA>> \o rule[2] = line
                                /\ rule[3] = <<>>
         [] OTHER -> rule[1] \o <<COMMA>> \o rule[2] \o <<COMMA>> \o rule[3] = line

\* C7: content_read returns one record per line that is, once trimmed,
\* neither empty nor a comment, in file order; each record has exactly three
\* fields: the first two comma-delimited parts and the whole remainder after
\* the second comma, a missing field being the empty string.
C7_ThreeFieldsPerLine ==
    pc = "parsed" =>
      LET qualifying == SelectSeq(MapSeq(SplitLines(fs[file_path]), Strip), Kept) IN
      /\ Len(rule_data) = Len(qualifying)
      /\ \A k \in 1..Len(qualifying) : ThreeFieldsOf(rule_data[k], qualifying[k])

\* C7's case: a line of four fields, whose remainder keeps its comma, then a
\* line of one field
C7_Witness ==
    /\ pc = "parsed"
    /\ fs[file_path] = <<COMMA, COMMA, COMMA, NL, "a">>
    /\ rule_data = << << <<>>, <<>>, <<COMMA>> >>, << <<"a">>, <<>>, <<>> >> >>

-----------------------------------------------------------------------------
(* main in a dialect mode *)

\* Path.exists
Exists(files, directories, p) == p \in DOMAIN files \/ p \in directories

\* f for f in path.rglob("*") if f.is_file()
FilesUnder(files, p) == {f \in DOMAIN files : Under(p, f) /\ f # p}

\* the names of the model in ascending order of their strings (code points)
NameOrder ==
    << Dir("A"), Dir("B"), Dir("Egern"), Dir("Missing"), Dir("Singbox"),
       <<"a", ".json">>, <<"a", ".yaml">>, <<"b", ".json">>, <<"b", ".yaml">>,
       <<"m", ".json">>, <<"m", ".yaml">>, <<"readme", ".md">>,
       <<"z", ".json">>, <<"z", ".yaml">> >>

NameRank(c) == CHOOSE i \in 1..Len(NameOrder) : NameOrder[i] = c

\* p < q for paths: the order of their lists of parts
PathLess(p, q) ==
    \/ Len(p) < Len(q) /\ Take(q, Len(p)) = p
    \/ \E i \in 1..Len(p) :
         /\ i <= Len(q)
         /\ Take(p, i - 1) = Take(q, i - 1)
         /\ NameRank(p[i]) < NameRank(q[i])

\* sorted(S)
Sorted(S) ==
    [k \in 1..Cardinality(S) |->
       CHOOSE p \in S : Cardinality({q \in S : PathLess(q, p)}) = k - 1]

\* FilesToProcess without sorted(): here, the files in descending order
FilesToProcess_Unsorted(files, p) ==
    IF p \in DOMAIN files THEN <<p>>
    ELSE LET up == Sorted(FilesUnder(files, p)) IN
         [k \in 1..Len(up) |-> up[Len(up) + 1 - k]]

\* line 123
FilesToProcess(files, p) ==
    IF p \in DOMAIN files THEN <<p>> ELSE Sorted(FilesUnder(files, p))

\* InvalidPath without the test of existence
InvalidPath_NotGivenOnly == ~path_given

\* line 121: not path or not path.exists()
InvalidPath == ~path_given \/ ~Exists(fs, dirs, file_path)

NotFound(p) ==
    Message("stderr", "Not Found or Unknown Type.", p, IF path_given THEN "" ELSE "None")
NoFileFound(p) == Message("stdout", "No File Found in:", p, "")
FailedToProcess(f, e) == Message("stdout", "Failed to Process", f, e)
Completed == Message("stdout", "Processed Completed.", Dot, "")

\* lines 121-122: sys.exit(message)
MainInvalidPath ==
    /\ pc = "start"
    /\ platform \in {"Egern", "Singbox"}
    /\ InvalidPath
    /\ console' = Append(console, NotFound(file_path))
    /\ exit_status' = 1
    /\ pc' = "exited"
    /\ UNCHANGED <<fs, dirs, fs0, platform, path_given, file_path, file_to_process,
                   pending, calls, rule_data, output, history>>

\* MainNoFiles without the return: the completion message follows
MainNoFiles_NoReturn ==
    /\ pc = "start"
    /\ platform \in {"Egern", "Singbox"}
    /\ ~InvalidPath
    /\ FilesToProcess(fs, file_path) = <<>>
    /\ console' = console \o <<NoFileFound(file_path), Completed>>
    /\ exit_status' = 0
    /\ pc' = "done"
    /\ UNCHANGED <<fs, dirs, fs0, platform, path_given, file_path, file_to_process,
                   pending, calls, rule_data, output, history>>

\* lines 123-126: no file to process
MainNoFiles ==
    /\ pc = "start"
    /\ platform \in {"Egern", "Singbox"}
    /\ ~InvalidPath
    /\ FilesToProcess(fs, file_path) = <<>>
    /\ console' = Append(console, NoFileFound(file_path))
    /\ exit_status' = 0
    /\ pc' = "done"
    /\ UNCHANGED <<fs, dirs, fs0, platform, path_given, file_path, file_to_process,
                   pending, calls, rule_data, output, history>>

\* line 123, the list is not empty: on to the loop
MainCollect ==
    /\ pc = "start"
    /\ platform \in {"Egern", "Singbox"}
    /\ ~InvalidPath
    /\ FilesToProcess(fs, file_path) # <<>>
    /\ file_to_process' = FilesToProcess(fs, file_path)
    /\ pc' = "loop"
    /\ UNCHANGED <<fs, dirs, fs0, platform, path_given, file_path, pending, console,
                   exit_status, calls, rule_data, output, history>>

\* lines 127-129: one iteration, the conversion returns
MainProcessOk ==
    /\ pc = "loop"
    /\ file_to_process # <<>>
    /\ LET f == Head(file_to_process)
           res == convert_function(platform, fs, dirs, f)
       IN  /\ ~res.raised
           /\ Called(f, res, <<>>)
    /\ file_to_process' = Tail(file_to_process)
    /\ UNCHANGED <<dirs, fs0, pc, platform, path_given, file_path, pending,
                   exit_status, history>>

\* lines 127-131: one iteration, the conversion raises an Exception
MainProcessFailed ==
    /\ pc = "loop"
    /\ file_to_process # <<>>
    /\ LET f == Head(file_to_process)
           res == convert_function(platform, fs, dirs, f)
       IN  /\ res.raised
           /\ Called(f, res, <<FailedToProcess(f, res.error)>>)
    /\ file_to_process' = Tail(file_to_process)
    /\ UNCHANGED <<dirs, fs0, pc, platform, path_given, file_path, pending,
                   exit_status, history>>

\* line 132, then the script ends
MainCompleted ==
    /\ pc = "loop"
    /\ file_to_process = <<>>
    /\ console' = Append(console, Completed)
    /\ exit_status' = 0
    /\ pc' = "done"
    /\ UNCHANGED <<fs, dirs, fs0, platform, path_given, file_path, file_to_process,
                   pending, calls, rule_data, output, history>>

-----------------------------------------------------------------------------
(* SpecMain: a dialect mode on small trees *)

\* the extension of the rule files of a tree
TreeSuffix(root) == IF root = "Egern" THEN ".yaml" ELSE ".json"

\* the files a tree may hold
TreeFiles(root) ==
    LET e == TreeSuffix(root) IN
    { <<Dir(root), Dir("A"), <<"a", e>>>>,
      <<Dir(root), Dir("A"), <<"readme", ".md">>>>,
      <<Dir(root), Dir("A"), <<"z", e>>>>,
      <<Dir(root), Dir("B"), <<"b", e>>>>,
      <<Dir(root), <<"m", e>>>> }

\* the directories a tree holds
TreeDirs(root) == {Dot, <<Dir(root)>>, <<Dir(root), Dir("A")>>, <<Dir(root), Dir("B")>>}

\* the path arguments tried
TreeArgs(root) ==
    { <<Dir(root)>>, <<Dir(root), Dir("A")>>, <<Dir(root), Dir("B")>>,
      <<Dir(root), Dir("A"), <<"a", TreeSuffix(root)>>>>, <<Dir("Missing")>> }

\* a rule file, and a file that is not UTF-8
GoodText == RowsText(<< <<"DOMAIN", NO_RESOLVE>>, <<"IP-CIDR", <<>>>> >>)
BadText == <<BadByte>>

InitMain ==
    /\ platform \in {"Egern", "Singbox"}
    /\ \E root \in {"Egern", "Singbox"} :
         /\ \E present \in SUBSET TreeFiles(root) :
              \E bad \in SUBSET present :
                fs = [f \in present |-> IF f \in bad THEN BadText ELSE GoodText]
         /\ \E readme_is_dir \in BOOLEAN :
              dirs = TreeDirs(root) \cup
                     (IF readme_is_dir
                      THEN {<<Dir(root), Dir("B"), <<"readme", ".md">>>>} ELSE {})
         /\ \/ path_given = TRUE /\ file_path \in TreeArgs(root)
            \/ path_given = FALSE /\ file_path = Dot
    /\ fs0 = fs
    /\ pc = "start"
    /\ file_to_process = <<>>
    /\ pending = {}
    /\ console = <<>>
    /\ exit_status = -1
    /\ calls = <<>>
    /\ rule_data = <<>>
    /\ output = <<>>
    /\ history = <<>>

NextMain ==
    \/ MainInvalidPath
    \/ MainNoFiles
    \/ MainCollect
    \/ MainProcessOk
    \/ MainProcessFailed
    \/ MainCompleted

SpecMain == InitMain /\ [][NextMain]_vars

-----------------------------------------------------------------------------
(* Properties of main in a dialect mode, checked under SpecMain *)

\* the files of the calls made so far, in order
CalledFiles == [i \in 1..Len(calls) |-> calls[i].file]

\* the path argument named a directory when the program started
DirectoryMode == path_given /\ file_path \in dirs /\ file_path \notin DOMAIN fs0

\* C3: in a dialect mode without a path argument, or with one that names
\* nothing, the program ends with a non-zero exit status and a message; no
\* conversion is called and no file is created or modified.
C3_InvalidPathExits ==
    (pc # "start" /\ (~path_given \/ ~Exists(fs0, dirs, file_path))) =>
      /\ pc = "exited"
      /\ exit_status # 0
      /\ exit_status # -1
      /\ console = <<NotFound(file_path)>>
      /\ calls = <<>>
      /\ fs = fs0

\* C3's case: the argument names nothing while the tree holds files
C3_Witness ==
    /\ pc = "exited"
    /\ path_given
    /\ file_path = <<Dir("Missing")>>
    /\ Cardinality(DOMAIN fs0) >= 2
    /\ exit_status = 1

\* the positions in console of the report of a failure on file f
FailureReports(f, e) == {i \in 1..Len(console) : console[i] = FailedToProcess(f, e)}

\* C4: on a directory every regular file found under it is passed to the
\* conversion exactly once, in sorted order; a failure is reported with the
\* file and the error and the later files are still processed; the run ends
\* with the completion message and exit status zero.
C4_EveryFileOnceInOrder ==
    (DirectoryMode /\ pc \in {"loop", "done"} /\ FilesUnder(fs0, file_path) # {}) =>
      LET found == FilesUnder(fs0, file_path) IN
      /\ CalledFiles \o file_to_process = Sorted(found)
      /\ \A i, j \in 1..Len(calls) : calls[i].file = calls[j].file => i = j
      /\ \A i, j \in 1..Len(calls) : i < j => PathLess(calls[i].file, calls[j].file)
      /\ \A i \in 1..Len(calls) :
           /\ calls[i].raised =>
                Cardinality(FailureReports(calls[i].file, calls[i].error)) = 1
           /\ ~calls[i].raised =>
                \A k \in 1..Len(console) :
                  console[k].kind = "Failed to Process" => console[k].file # calls[i].file
      /\ pc = "loop" => exit_status = -1
      /\ \A i \in 1..Len(file_to_process) : file_to_process[i] \in DOMAIN fs
      /\ pc = "done" =>
           /\ file_to_process = <<>>
           /\ {calls[i].file : i \in 1..Len(calls)} = found
           /\ console[Len(console)] = Completed
           /\ exit_status = 0

\* C4's case: a failure between two conversions that succeed
C4_Witness ==
    /\ DirectoryMode
    /\ pc = "done"
    /\ exit_status = 0
    /\ Len(calls) >= 3
    /\ ~calls[1].raised
    /\ calls[2].raised
    /\ ~calls[3].raised

\* C5: on an existing directory that holds no regular file, at any depth,
\* the program prints the no-files-found message and exits with status
\* zero; no conversion is called and no file is created or modified.
C5_EmptyDirectory ==
    (pc # "start" /\ DirectoryMode /\ FilesUnder(fs0, file_path) = {}) =>
      /\ pc = "done"
      /\ exit_status = 0
      /\ console = <<NoFileFound(file_path)>>
      /\ calls = <<>>
      /\ fs = fs0

\* C5's case: the directory holds sub-directories and no file, while other
\* files exist elsewhere
C5_Witness ==
    /\ pc = "done"
    /\ DirectoryMode
    /\ Len(file_path) = 1
    /\ FilesUnder(fs0, file_path) = {}
    /\ \E d \in dirs : Under(file_path, d) /\ d # file_path
    /\ console = <<NoFileFound(file_path)>>

\* the readme.md the conversion of file f writes in dialect plat
ReadmeOf(plat, f) ==
    LET root == PlatformRoot(f, plat) IN
    IF plat = "Egern"
    THEN EgernReadme(Stem(f), relative_to_parent(f, root))
    ELSE SingboxReadme(Stem(f), relative_to_parent(f, root),
                       relative_to_parent(with_suffix(f, ".srs"), root))

\* the positions in calls of the conversions of files of directory d that
\* succeeded
Succeeded(d) == {i \in 1..Len(calls) : Parent(calls[i].file) = d /\ ~calls[i].raised}

\* C10: after a batch over a directory, the readme.md of each directory
\* names the last file of that directory, in processing order, whose
\* conversion succeeded; a readme.md that the batch created is not converted
\* in that batch, one that existed before is converted like any other file.
C10_ReadmeNamesLastSuccess ==
    (DirectoryMode /\ pc = "done") =>
      /\ \A d \in dirs :
           Succeeded(d) # {} =>
             LET last == CHOOSE i \in Succeeded(d) : \A j \in Succeeded(d) : j <= i IN
             /\ Append(d, <<"readme", ".md">>) \in DOMAIN fs
             /\ fs[Append(d, <<"readme", ".md">>)] = ReadmeOf(platform, calls[last].file)
      /\ \A f \in DOMAIN fs :
           (Under(file_path, f) /\ f[Len(f)] = <<"readme", ".md">>) =>
             ((\E i \in 1..Len(calls) : calls[i].file = f) <=> f \in DOMAIN fs0)

\* C10's case: a.yaml, the readme.md that was there and z.yaml of one
\* directory are all converted, and the readme.md names z
C10_Witness ==
    /\ DirectoryMode
    /\ pc = "done"
    /\ platform = "Egern"
    /\ LET d == <<Dir("Egern"), Dir("A")>> IN
         /\ Cardinality(Succeeded(d)) = 3
         /\ fs[Append(d, <<"readme", ".md">>)] = ReadmeOf("Egern", Append(d, <<"z", ".yaml">>))
    /\ \E i \in 1..Len(calls) : calls[i].raised

-----------------------------------------------------------------------------
(* process_source, and main in mirror mode *)

SOURCE_PATH == <<Dir("ios_rule_script"), Dir("rule"), Dir("Clash")>>
EGERN_PATH == <<Dir("Egern")>>
SINGBOX_PATH == <<Dir("Singbox")>>

\* rmtree that removes nothing
rmtree_Nothing(files, path) == files

\* shutil.rmtree(path): the files that are left
rmtree(files, path) ==
    [f \in {g \in DOMAIN files : ~Under(path, g)} |-> files[f]]

\* shutil.rmtree(path): the directories that are left
rmtree_dirs(directories, path) == {d \in directories : ~Under(path, d)}

\* Path.mkdir(parents=True, exist_ok=True)
mkdir_parents(directories, p) == directories \cup {Take(p, k) : k \in 0..Len(p)}

\* the name matches "*.list"; a name of the model has a stem that is not
\* empty and does not start with a dot, so that it matches when its suffix is
\* ".list"
MatchesList(c) == c[2] = ".list"

\* source_path.rglob("*.list"): files and directories alike
rglob_list(files, directories, path) ==
    {e \in (DOMAIN files) \cup directories :
       Under(path, e) /\ e # path /\ MatchesList(e[Len(e)])}

\* lines 36 and 38: base / relative_path.with_suffix(suffix)
TargetPath(base, source_file, suffix) ==
    base \o with_suffix(Drop(source_file, Len(SOURCE_PATH)), suffix)

Copied(source_file, suffix) == Message("stdout", "Copied", source_file, suffix)
Traceback(source_file) == Message("stderr", "Traceback", source_file, IsADirectoryErrorMsg)

\* lines 31-34, one iteration: the tree `path` is removed and made anew;
\* after the second one rglob starts (line 35)
ClearTree(path, at, next) ==
    /\ pc = at
    /\ platform = "Source"
    /\ fs' = (IF Exists(fs, dirs, path) THEN rmtree(fs, path) ELSE fs)
    /\ dirs' = mkdir_parents(IF Exists(fs, dirs, path) THEN rmtree_dirs(dirs, path)
                                                       ELSE dirs, path)
    /\ pending' = (IF next = "copy" THEN rglob_list(fs, dirs, SOURCE_PATH) ELSE pending)
    /\ pc' = next
    /\ UNCHANGED <<fs0, platform, path_given, file_path, file_to_process, console,
                   exit_status, calls, rule_data, output, history>>

\* lines 35-41, one iteration on a regular file: copied to both trees
CopyFile ==
    /\ pc = "copy"
    /\ \E source_file \in pending :
         /\ source_file \in DOMAIN fs
         /\ LET egern_target == TargetPath(EGERN_PATH, source_file, ".yaml")
                singbox_target == TargetPath(SINGBOX_PATH, source_file, ".json")
            IN  /\ dirs' = mkdir_parents(mkdir_parents(dirs, Parent(egern_target)),
                                         Parent(singbox_target))
                /\ fs' = WriteFile(WriteFile(fs, egern_target, fs[source_file]),
                                   singbox_target, fs[source_file])
         /\ console' = console \o <<Copied(source_file, ".yaml"), Copied(source_file, ".json")>>
         /\ pending' = pending \ {source_file}
    /\ UNCHANGED <<fs0, pc, platform, path_given, file_path, file_to_process,
                   exit_status, calls, rule_data, output, history>>

\* lines 35-40 on a directory named *.list: shutil.copy raises, nothing
\* catches it, the program ends with a traceback
CopyRaises ==
    /\ pc = "copy"
    /\ \E source_file \in pending :
         /\ source_file \in dirs
         /\ dirs' = mkdir_parents(dirs, Parent(TargetPath(EGERN_PATH, source_file, ".yaml")))
         /\ console' = Append(console, Traceback(source_file))
         /\ pending' = pending \ {source_file}
    /\ exit_status' = 1
    /\ pc' = "crashed"
    /\ UNCHANGED <<fs, fs0, platform, path_given, file_path, file_to_process,
                   calls, rule_data, output, history>>

\* rglob is exhausted, process_source returns; line 132, then the script ends
SourceCompleted ==
    /\ pc = "copy"
    /\ pending = {}
    /\ console' = Append(console, Completed)
    /\ exit_status' = 0
    /\ pc' = "done"
    /\ UNCHANGED <<fs, dirs, fs0, platform, path_given, file_path, file_to_process,
                   pending, calls, rule_data, output, history>>

-----------------------------------------------------------------------------
(* SpecMirror: mirror mode on small trees *)

OldText == RowsText(<< <<"DOMAIN", <<>>>> >>)
NewText == RowsText(<< <<"IP-CIDR", NO_RESOLVE>> >>)

SourceA == SOURCE_PATH \o <<Dir("A"), <<"A", ".list">>>>
SourceTxt == SOURCE_PATH \o <<Dir("A"), <<"b", ".txt">>>>
SourceXY == SOURCE_PATH \o <<Dir("B"), <<"x.y", ".list">>>>
SourceDirList == SOURCE_PATH \o <<<<"d", ".list">>>>

\* files the destination trees may hold from an earlier run
StaleFiles ==
    { EGERN_PATH \o <<Dir("A"), <<"A", ".yaml">>>>,
      EGERN_PATH \o <<Dir("old"), <<"stale", ".yaml">>>>,
      SINGBOX_PATH \o <<Dir("A"), <<"A", ".json">>>>,
      SINGBOX_PATH \o <<<<"x", ".json">>>> }

\* the directories that hold the files of the set
ParentsOf(paths) == UNION {{Take(p, k) : k \in 0..(Len(p) - 1)} : p \in paths}

InitMirror ==
    /\ platform = "Source"
    /\ path_given \in BOOLEAN
    /\ file_path = Dot
    /\ \E a \in {<<>>, <<OldText>>, <<NewText>>} :
       \E others \in SUBSET {SourceTxt, SourceXY} :
       \E stale \in SUBSET StaleFiles :
       \E dir_list \in SUBSET {SourceDirList} :
         /\ fs = [f \in (IF a = <<>> THEN {} ELSE {SourceA}) \cup others \cup stale |->
                    IF f = SourceA THEN a[1]
                    ELSE IF f \in stale THEN OldText ELSE NewText]
         /\ dirs = ParentsOf({SourceA, SourceXY} \cup stale) \cup dir_list
    /\ fs0 = fs
    /\ pc = "start"
    /\ file_to_process = <<>>
    /\ pending = {}
    /\ console = <<>>
    /\ exit_status = -1
    /\ calls = <<>>
    /\ rule_data = <<>>
    /\ output = <<>>
    /\ history = <<>>

NextMirror ==
    \/ ClearTree(EGERN_PATH, "start", "clear")
    \/ ClearTree(SINGBOX_PATH, "clear", "copy")
    \/ CopyFile
    \/ CopyRaises
    \/ SourceCompleted

SpecMirror == InitMirror /\ [][NextMirror]_vars

\* the *.list files of the source tree when the program started
SourceLists ==
    {f \in DOMAIN fs0 : Under(SOURCE_PATH, f) /\ f[Len(f)][2] = ".list"}

\* C6: when mirror mode completes, each destination tree holds exactly one
\* file per *.list file of the source tree, at the same relative path with
\* the extension changed and with the content of the source file; nothing
\* else that was in a destination tree before the run is left.
C6_MirrorExact ==
    (platform = "Source" /\ pc = "done") =>
      \A dest \in {<<EGERN_PATH, ".yaml">>, <<SINGBOX_PATH, ".json">>} :
        LET Target(f) ==
              dest[1] \o Take(Drop(f, Len(SOURCE_PATH)), Len(f) - Len(SOURCE_PATH) - 1)
                      \o << <<f[Len(f)][1], dest[2]>> >>
            held == {g \in DOMAIN fs : Under(dest[1], g)}
        IN  /\ held = {Target(f) : f \in SourceLists}
            /\ Cardinality(held) = Cardinality(SourceLists)
            /\ \A f \in SourceLists : fs[Target(f)] = fs0[f]
            /\ \A g \in DOMAIN fs0 : Under(dest[1], g) /\ g \in held =>
                 \E f \in SourceLists : g = Target(f) /\ fs[g] = fs0[f]
            /\ \A f \in DOMAIN fs0 : Under(SOURCE_PATH, f) => f \in DOMAIN fs /\ fs[f] = fs0[f]
            /\ exit_status = 0

\* C6's case: two source files are mirrored; one stale file is gone, another
\* is there again with the content of the source
C6_Witness ==
    /\ platform = "Source"
    /\ pc = "done"
    /\ Cardinality(SourceLists) = 2
    /\ EGERN_PATH \o <<Dir("old"), <<"stale", ".yaml">>>> \in DOMAIN fs0
    /\ EGERN_PATH \o <<Dir("old"), <<"stale", ".yaml">>>> \notin DOMAIN fs
    /\ SINGBOX_PATH \o <<<<"x", ".json">>>> \in DOMAIN fs0
    /\ SINGBOX_PATH \o <<<<"x", ".json">>>> \notin DOMAIN fs
    /\ EGERN_PATH \o <<Dir("A"), <<"A", ".yaml">>>> \in DOMAIN fs0
    /\ fs0[EGERN_PATH \o <<Dir("A"), <<"A", ".yaml">>>>] = OldText
    /\ EGERN_PATH \o <<Dir("A"), <<"A", ".yaml">>>> \in DOMAIN fs
    /\ EGERN_PATH \o <<Dir("B"), <<"x.y", ".yaml">>>> \in DOMAIN fs
    /\ fs[EGERN_PATH \o <<Dir("A"), <<"A", ".yaml">>>>] = NewText
    /\ fs[EGERN_PATH \o <<Dir("B"), <<"x.y", ".yaml">>>>] = NewText

====
